---- MODULE Spec2Model ----
(***************************************************************************)
(* Conversation store (zustand, src/lib/export.ts useChatStore) and the    *)
(* ChatContainer reconciliation logic (components/chat/ChatContainer.tsx)  *)
(* of the chat-ai application: handleSend, handleRegenerate, handleEdit,   *)
(* the useChat completion callback onFinish, the conversation-switch       *)
(* effect and the title-generation side effect.                            *)
(*                                                                         *)
(* Every action is one event-loop task: the handler, the store update it   *)
(* makes, and the re-render with its effect (useEffect) that follows.      *)
(***************************************************************************)
EXTENDS Integers, Sequences, FiniteSets, TLC

\* ------------------------------------------------------------------ bounds
MaxWork == 4         \* conversations created plus requests dispatched
MaxRedeliver == 1    \* repeated completion signals per stream (SpecCommit)
MaxAttachments == 2  \* attachments of one message (SpecRoute)
MaxMessages == 1     \* messages of a list handed to the formatter (SpecRoute)
MaxPieces == 2       \* pieces a text of the title route is made of (SpecTitle)
MaxFiles == 2        \* conversation documents of the storage directory (SpecStorage)
MaxOps == 3          \* store operations in a row, and conversations loaded (SpecStore)
Contents == {"a", "b"}

\* ------------------------------------------------------- program constants
NoConv == 0                 \* null / undefined conversation id
NoMsg == 0                  \* no target message
NoContent == ""             \* firstUserMessageRef.current === null
Placeholder == "untitled"   \* the sentinel title of a new conversation
DefaultModel == "gpt-4o"
Reply == "r"                \* text of a completed assistant message
Partial == "p"              \* text of an assistant message still streaming
Undefined == "undefined"    \* a system prompt that is undefined

VARIABLES
  conversations,          \* store: list of conversations, newest first
  currentConversationId,  \* store: id of the displayed conversation
  clock,                  \* wall clock read by new Date()
  nextId,                 \* message ids generated so far
  nextConv,               \* conversation ids generated so far
  chatMessages,           \* useChat: working message list, per chat id
  status,                 \* useChat: request status, per chat id
  streams,                \* useChat: requests in flight
  finished,               \* useChat: requests whose stream has completed
  failed,                 \* useChat: identifiers of the requests that failed
  savedMessageIds,        \* ref: commit-dedupe set
  prevConversationId,     \* ref: conversation the effect last loaded
  titleGeneratedRef,      \* ref: conversations with a scheduled title call
  firstUserMessageRef,    \* ref: first user message text
  titleReqs,              \* title-generation calls issued, in order
  env,                    \* route: process.env credentials, per provider
  apiCall,                \* the last call of a route or of the store, and its result
  files,                  \* storage: the files of the storage directory
  gatewayCalls            \* requests the browser has sent to /api/conversations

chatVars == <<conversations, currentConversationId, clock, nextId, nextConv,
              chatMessages, status, streams, finished, failed, savedMessageIds,
              prevConversationId,
              titleGeneratedRef, firstUserMessageRef, titleReqs>>

gatewayVars == <<files, gatewayCalls>>

routeVars == <<env, apiCall, gatewayVars>>

vars == <<chatVars, routeVars>>

\* the falsy values of a model or credential: null, undefined and ''
Absent == <<>>

Providers == {"openai", "anthropic", "google"}

\* no call of the route yet
NoCall == [op |-> "none"]

ConvIds == 1..MaxWork
ChatKeys == {NoConv} \cup ConvIds

\* --------------------------------------------------------- list helpers
Range(s) == {s[i] : i \in DOMAIN s}

MsgIds(ms) == {ms[i].id : i \in DOMAIN ms}

\* Array.prototype.findIndex((m) => m.id === messageId), 1-based; 0 for -1
FindIndex(ms, messageId) ==
  IF \E i \in DOMAIN ms : ms[i].id = messageId
  THEN CHOOSE i \in DOMAIN ms :
         ms[i].id = messageId /\ \A j \in 1..(i - 1) : ms[j].id # messageId
  ELSE 0

\* chatMessages.slice(0, idx) for the 0-based idx = i - 1
SliceBefore(ms, i) == SubSeq(ms, 1, i - 1)

\* chatMessages.slice(idx) for the 0-based idx = i - 1
SliceFrom(ms, i) == SubSeq(ms, i, Len(ms))

\* number of entries of ms whose id is id
Occurrences(ms, id) == Cardinality({i \in DOMAIN ms : ms[i].id = id})

\* roles and contents of a message list, in order
Shape(ms) == [i \in DOMAIN ms |-> <<ms[i].role, ms[i].content>>]

\* ----------------------------------------------------------------- store
ConvIdsIn(convs) == {convs[i].id : i \in DOMAIN convs}

\* state.conversations.find((c) => c.id === id)
FindConv(convs, id) == CHOOSE i \in DOMAIN convs : convs[i].id = id

ConvOf(convs, id) == convs[FindConv(convs, id)]

MessagesOf(convs, id) ==
  IF id \in ConvIdsIn(convs) THEN ConvOf(convs, id).messages ELSE <<>>

TitleOf(convs, id) ==
  IF id \in ConvIdsIn(convs) THEN ConvOf(convs, id).title ELSE ""

createConversation(convs, id, now) ==
  <<[id |-> id, title |-> Placeholder, messages |-> <<>>,
     model |-> DefaultModel, systemPrompt |-> Undefined,
     isPinned |-> FALSE, isArchived |-> FALSE,
     createdAt |-> now, updatedAt |-> now]>> \o convs

deleteConversation(convs, id) ==
  SelectSeq(convs, LAMBDA c : c.id # id)

\* a store that keeps the selection when the selected conversation goes
deleteCurrentId_Keep(convs, cur, id) == cur

\* newCurrentId of deleteConversation
deleteCurrentId(convs, cur, id) ==
  IF cur = id
  THEN IF Len(deleteConversation(convs, id)) > 0
       THEN deleteConversation(convs, id)[1].id
       ELSE NoConv
  ELSE cur

\* updateConversation(id, { title })
updateConversation(convs, id, title, now) ==
  [i \in DOMAIN convs |->
     IF convs[i].id = id
     THEN [convs[i] EXCEPT !.title = title, !.updatedAt = now]
     ELSE convs[i]]

\* a store that puts the new message in front of the list
addMessage_Prepend(convs, conversationId, message, now) ==
  [i \in DOMAIN convs |->
     IF convs[i].id = conversationId
     THEN [convs[i] EXCEPT !.messages = <<message>> \o @, !.updatedAt = now]
     ELSE convs[i]]

addMessage(convs, conversationId, message, now) ==
  [i \in DOMAIN convs |->
     IF convs[i].id = conversationId
     THEN [convs[i] EXCEPT !.messages = Append(@, message), !.updatedAt = now]
     ELSE convs[i]]

\* { ...c, ...updates, updatedAt: new Date() } with the update read last
mergeUpdates_UpdatesLast(c, updates, now) ==
  [f \in DOMAIN c \cup DOMAIN updates |->
     IF f \in DOMAIN updates THEN updates[f]
     ELSE IF f = "updatedAt" THEN now ELSE c[f]]

\* { ...c, ...updates, updatedAt: new Date() }
mergeUpdates(c, updates, now) ==
  [f \in DOMAIN c \cup DOMAIN updates |->
     IF f = "updatedAt" THEN now
     ELSE IF f \in DOMAIN updates THEN updates[f] ELSE c[f]]

\* updateConversation(id, updates) for any Partial<Conversation>
updateConversationPartial(convs, id, updates, now) ==
  [i \in DOMAIN convs |->
     IF convs[i].id = id THEN mergeUpdates(convs[i], updates, now)
     ELSE convs[i]]

pinConversation(convs, id, now) ==
  [i \in DOMAIN convs |->
     IF convs[i].id = id
     THEN [convs[i] EXCEPT !.isPinned = ~@, !.updatedAt = now]
     ELSE convs[i]]

archiveConversation(convs, id, now) ==
  [i \in DOMAIN convs |->
     IF convs[i].id = id
     THEN [convs[i] EXCEPT !.isArchived = ~@, !.updatedAt = now]
     ELSE convs[i]]

updateMessage(convs, conversationId, messageId, content, now) ==
  [i \in DOMAIN convs |->
     IF convs[i].id = conversationId
     THEN [convs[i] EXCEPT
             !.messages = [k \in DOMAIN @ |->
                             IF @[k].id = messageId
                             THEN [@[k] EXCEPT !.content = content]
                             ELSE @[k]],
             !.updatedAt = now]
     ELSE convs[i]]

\* getCurrentConversation()?.id, as ChatContainer reads it when it renders
RenderedConvId(convs, cur) ==
  IF cur \in ConvIdsIn(convs) THEN cur ELSE NoConv

\* ------------------------------------------------------------ identifiers
\* an identifier that does not vary between calls
generateMessageId_Fixed(n) == 1

\* generateMessageId(): the n-th identifier generated in this process
generateMessageId(n) == n

\* ------------------------------------------- the conversation-switch effect
\* if (prevConversationId.current === currentConversation?.id) return;
EffectRuns(prev, cid) == prev # cid

\* currentConversation.messages.map(({id, role, content}) => ...)
LoadedMessages(ms) ==
  [i \in DOMAIN ms |->
     [id |-> ms[i].id, role |-> ms[i].role, content |-> ms[i].content]]

\* seeding with the identifiers of all messages, whatever their role
SeedSaved_AllRoles(ms) == MsgIds(ms)

\* forEach((msg) => { if (msg.role === 'assistant') savedMessageIds.add(msg.id) })
SeedSaved(ms) == {ms[i].id : i \in {j \in DOMAIN ms : ms[j].role = "assistant"}}

\* The re-render that follows a handler and the effect it runs: convs2, cur2
\* are the store after the handler; chat2, saved2, first2 are the working
\* lists and refs after the handler.
Render(convs2, cur2, chat2, saved2, first2) ==
  LET cid == RenderedConvId(convs2, cur2) IN
  IF EffectRuns(prevConversationId, cid)
  THEN /\ prevConversationId' = cid
       /\ savedMessageIds' = SeedSaved(MessagesOf(convs2, cid))
       /\ firstUserMessageRef' = NoContent
       /\ chatMessages' =
            [chat2 EXCEPT ![cid] = LoadedMessages(MessagesOf(convs2, cid))]
  ELSE /\ prevConversationId' = prevConversationId
       /\ savedMessageIds' = saved2
       /\ firstUserMessageRef' = first2
       /\ chatMessages' = chat2

\* ------------------------------------------------------------ useChat
IsLoading(st) == st \in {"submitted", "streaming"}

\* The request useChat dispatches: chat is the chat id of the hook, conv and
\* title are currentConversation as the onFinish closure of that render sees
\* it, msgs the outbound message snapshot, id the identifier the assistant
\* message of this request gets.  kind, target and arg record which handler
\* issued the request, for which message and with which text, list the
\* working list the handler installed before it issued the request.
NewStream(id, chat, conv, title, msgs, kind, target, arg, list) ==
  [id |-> id, chat |-> chat, conv |-> conv, title |-> title, msgs |-> msgs,
   state |-> "submitted", kind |-> kind, target |-> target, arg |-> arg,
   list |-> list]

\* what a completion signal of a completed request carries: the message
\* identifier and the closure of onFinish (kind as in the request)
Completed(s, n) ==
  [id |-> s.id, conv |-> s.conv, title |-> s.title, kind |-> s.kind,
   deliveries |-> n]

\* conversations created plus requests dispatched so far
Work == nextConv + Cardinality(streams) + Cardinality(finished)
          + Cardinality(failed)

\* reload(): the messages it re-requests (a trailing assistant message is
\* removed first)
ReloadMessages(ms) ==
  IF Len(ms) > 0 /\ ms[Len(ms)].role = "assistant"
  THEN SubSeq(ms, 1, Len(ms) - 1)
  ELSE ms

AssistantMessage(s, content) ==
  [id |-> s.id, role |-> "assistant", content |-> content]

\* -------------------------------------------------------------- onFinish
\* the conversation displayed when the completion arrives
FinishTarget_Displayed(s, cur) == cur

\* the conversation the completed message is added to: currentConversation.id
\* of the closure, not the conversation displayed at completion time
FinishTarget(s, cur) == s.conv

\* the commit guard without the savedMessageIds test
FinishCommits_NoDedupe(s, saved) == s.conv # NoConv

\* if (currentConversation && !savedMessageIds.current.has(message.id))
FinishCommits(s, saved) == s.conv # NoConv /\ s.id \notin saved

\* a gate that never consults titleGeneratedRef
HasNotGeneratedTitle_Always(generated, convId) == TRUE

\* const hasNotGeneratedTitle = !titleGeneratedRef.current.has(convId)
HasNotGeneratedTitle(generated, convId) == convId \notin generated

\* if (isNewConversation && hasNotGeneratedTitle && hasFirstMessage)
FinishSchedulesTitle(s, generated, first) ==
  /\ s.title = Placeholder
  /\ HasNotGeneratedTitle(generated, s.conv)
  /\ first # NoContent

\* the title the title-generation call resolves to for a first message
GeneratedTitle(message) == IF message = "a" THEN "Ta" ELSE "Tb"

\* onFinish(message) for the request s, followed by the re-render; chat2 is
\* the working lists after the last stream update
OnFinish(s, chat2) ==
  IF FinishCommits(s, savedMessageIds)
  THEN LET convs2 == addMessage(conversations, FinishTarget(s, currentConversationId),
                                AssistantMessage(s, Reply), clock + 1)
           sched == FinishSchedulesTitle(s, titleGeneratedRef, firstUserMessageRef)
       IN /\ conversations' = convs2
          /\ clock' = clock + 1
          /\ titleGeneratedRef' =
               IF sched THEN titleGeneratedRef \cup {s.conv} ELSE titleGeneratedRef
          /\ titleReqs' =
               IF sched
               THEN Append(titleReqs, [conv |-> s.conv,
                                       message |-> firstUserMessageRef,
                                       pending |-> TRUE])
               ELSE titleReqs
          /\ Render(convs2, currentConversationId, chat2,
                    savedMessageIds \cup {s.id}, firstUserMessageRef)
  ELSE /\ UNCHANGED <<conversations, clock, titleGeneratedRef, titleReqs>>
       /\ Render(conversations, currentConversationId, chat2,
                 savedMessageIds, firstUserMessageRef)

\* ------------------------------------------------------------------ Init
InitChat ==
  /\ conversations = <<>>
  /\ currentConversationId = NoConv
  /\ clock = 0
  /\ nextId = 0
  /\ nextConv = 0
  /\ chatMessages = [k \in ChatKeys |-> <<>>]
  /\ status = [k \in ChatKeys |-> "ready"]
  /\ streams = {}
  /\ finished = {}
  /\ failed = {}
  /\ savedMessageIds = {}
  /\ prevConversationId = NoConv
  /\ titleGeneratedRef = {}
  /\ firstUserMessageRef = NoContent
  /\ titleReqs = <<>>

\* nothing is stored yet and the browser has sent nothing to the gateway
InitGateway ==
  /\ files = <<>>
  /\ gatewayCalls = <<>>

Init ==
  /\ InitChat
  /\ InitGateway
  /\ env = [p \in Providers |-> Absent]
  /\ apiCall = NoCall

\* --------------------------------------------------------------- actions
\* Sidebar "new chat": createConversation(); setCurrentConversation(newId)
CreateConversation ==
  /\ Work < MaxWork
  /\ LET id == nextConv + 1
         convs2 == createConversation(conversations, id, clock + 1)
     IN /\ conversations' = convs2
        /\ currentConversationId' = id
        /\ nextConv' = id
        /\ clock' = clock + 1
        /\ Render(convs2, id, chatMessages, savedMessageIds, firstUserMessageRef)
  /\ UNCHANGED <<nextId, status, streams, finished, failed, titleGeneratedRef, titleReqs,
                 routeVars>>

\* Sidebar click on a conversation: setCurrentConversation(id)
SetCurrentConversation(id) ==
  /\ id \in ConvIdsIn(conversations)
  /\ id # currentConversationId
  /\ currentConversationId' = id
  /\ Render(conversations, id, chatMessages, savedMessageIds, firstUserMessageRef)
  /\ UNCHANGED <<conversations, clock, nextId, nextConv, status, streams,
                 finished, failed, titleGeneratedRef, titleReqs,
                 routeVars>>

\* Sidebar delete confirmation: deleteConversation(id)
DeleteConversation(id) ==
  /\ id \in ConvIdsIn(conversations)
  /\ LET convs2 == deleteConversation(conversations, id)
         cur2 == deleteCurrentId(conversations, currentConversationId, id)
     IN /\ conversations' = convs2
        /\ currentConversationId' = cur2
        /\ Render(convs2, cur2, chatMessages, savedMessageIds, firstUserMessageRef)
  /\ UNCHANGED <<clock, nextId, nextConv, status, streams, finished, failed,
                 titleGeneratedRef, titleReqs,
                 routeVars>>

\* InputArea.handleSend -> ChatContainer.handleSend(content, [])
HandleSend(content) ==
  LET cid == RenderedConvId(conversations, currentConversationId)
      userMessage == [id |-> generateMessageId(nextId + 1), role |-> "user",
                      content |-> content]
      outbound == Append(chatMessages[cid],
                         [id |-> nextId + 2, role |-> "user", content |-> content])
      convs2 == addMessage(conversations, cid, userMessage, clock + 1)
      first2 == IF TitleOf(conversations, cid) = Placeholder
                   /\ firstUserMessageRef = NoContent
                THEN content ELSE firstUserMessageRef
  IN /\ cid # NoConv
     /\ ~IsLoading(status[cid])
     /\ Work < MaxWork
     /\ conversations' = convs2
     /\ clock' = clock + 1
     /\ nextId' = nextId + 3
     /\ status' = [status EXCEPT ![cid] = "submitted"]
     /\ streams' = streams \cup
          {NewStream(nextId + 3, cid, cid, TitleOf(conversations, cid),
                     outbound, "send", NoMsg, content, outbound)}
     /\ Render(convs2, currentConversationId,
               [chatMessages EXCEPT ![cid] = outbound], savedMessageIds, first2)
     /\ UNCHANGED <<currentConversationId, nextConv, finished, failed,
                    titleGeneratedRef, titleReqs,
                    routeVars>>

\* setMessages(list); await reload() of handleRegenerate and handleEdit in the
\* chat cid, with saved2 the dedupe set the handler leaves; reload() returns
\* without a request when the list is empty
Reload(cid, list, saved2, kind, target, arg) ==
  /\ IF Len(list) = 0
     THEN UNCHANGED <<nextId, status, streams>>
     ELSE /\ nextId' = nextId + 1
          /\ status' = [status EXCEPT ![cid] = "submitted"]
          /\ streams' = streams \cup
               {NewStream(nextId + 1, cid, cid, TitleOf(conversations, cid),
                          ReloadMessages(list), kind, target, arg, list)}
  /\ Render(conversations, currentConversationId,
            [chatMessages EXCEPT ![cid] = ReloadMessages(list)], saved2,
            firstUserMessageRef)

\* const newMessages = chatMessages.slice(0, idx)
RegenerateMessages(ms, i) == SliceBefore(ms, i)

\* the dedupe set left as it is
RegenerateSaved_Keep(saved, messageId) == saved

\* savedMessageIds.current.delete(messageId)
RegenerateSaved(saved, messageId) == saved \ {messageId}

\* MessageActions "regenerate" on an assistant message -> handleRegenerate
HandleRegenerate(messageId) ==
  LET cid == RenderedConvId(conversations, currentConversationId)
      ms == chatMessages[cid]
      i == FindIndex(ms, messageId)
  IN /\ i # 0
     /\ ms[i].role = "assistant"
     /\ Work < MaxWork
     /\ Reload(cid, RegenerateMessages(ms, i),
               RegenerateSaved(savedMessageIds, messageId),
               "regenerate", messageId, NoContent)
     /\ UNCHANGED <<conversations, currentConversationId, clock, nextConv,
                    finished, failed, titleGeneratedRef, titleReqs,
                    routeVars>>

\* [...chatMessages.slice(0, idx), { ...original, content: newContent }]
EditMessages(ms, i, newContent) ==
  Append(SliceBefore(ms, i), [ms[i] EXCEPT !.content = newContent])

\* only the edited message's identifier is removed
EditSaved_TargetOnly(saved, ms, i) == saved \ {ms[i].id}

\* chatMessages.slice(idx).forEach((msg) => savedMessageIds.current.delete(msg.id))
EditSaved(saved, ms, i) == saved \ MsgIds(SliceFrom(ms, i))

\* MessageItem "edit" on a user message -> handleEdit(messageId, newContent)
HandleEdit(messageId, newContent) ==
  LET cid == RenderedConvId(conversations, currentConversationId)
      ms == chatMessages[cid]
      i == FindIndex(ms, messageId)
  IN /\ i # 0
     /\ ms[i].role = "user"
     /\ Work < MaxWork
     /\ Reload(cid, EditMessages(ms, i, newContent),
               EditSaved(savedMessageIds, ms, i), "edit", messageId, newContent)
     /\ UNCHANGED <<conversations, currentConversationId, clock, nextConv,
                    finished, failed, titleGeneratedRef, titleReqs,
                    routeVars>>

\* useChat onUpdate: a token of request s arrives
StreamUpdate(s) ==
  /\ s \in streams
  /\ streams' = (streams \ {s}) \cup {[s EXCEPT !.state = "streaming"]}
  /\ status' = [status EXCEPT ![s.chat] = "streaming"]
  /\ Render(conversations, currentConversationId,
            [chatMessages EXCEPT
               ![s.chat] = Append(s.msgs, AssistantMessage(s, Partial))],
            savedMessageIds, firstUserMessageRef)
  /\ UNCHANGED <<conversations, currentConversationId, clock, nextId, nextConv,
                 finished, failed, titleGeneratedRef, titleReqs,
                 routeVars>>

\* the stream of request s ends: last onUpdate, onFinish, status 'ready'
StreamFinish(s) ==
  /\ s \in streams
  /\ streams' = streams \ {s}
  /\ finished' = finished \cup {Completed(s, 1)}
  /\ status' = [status EXCEPT ![s.chat] = "ready"]
  /\ OnFinish(s, [chatMessages EXCEPT
                    ![s.chat] = Append(s.msgs, AssistantMessage(s, Reply))])
  /\ UNCHANGED <<currentConversationId, nextId, nextConv, failed,
                 routeVars>>

\* the completion signal of a completed request f is delivered again (retry)
DuplicateFinish(f) ==
  /\ f \in finished
  /\ f.deliveries < 1 + MaxRedeliver
  /\ finished' = (finished \ {f}) \cup {Completed(f, f.deliveries + 1)}
  /\ OnFinish(f, chatMessages)
  /\ UNCHANGED <<currentConversationId, nextId, nextConv, status, streams,
                 failed,
                 routeVars>>

\* generateConversationTitle(...).then((title) => updateConversation(convId, { title }))
TitleResolved(k) ==
  /\ k \in DOMAIN titleReqs
  /\ titleReqs[k].pending
  /\ LET convs2 == updateConversation(conversations, titleReqs[k].conv,
                                      GeneratedTitle(titleReqs[k].message), clock + 1)
     IN /\ conversations' = convs2
        /\ Render(convs2, currentConversationId, chatMessages, savedMessageIds,
                  firstUserMessageRef)
  /\ clock' = clock + 1
  /\ titleReqs' = [titleReqs EXCEPT ![k].pending = FALSE]
  /\ UNCHANGED <<currentConversationId, nextId, nextConv, status, streams,
                 finished, failed, titleGeneratedRef,
                 routeVars>>

\* a caller of the store gives the conversation a title of its own:
\* updateConversation(id, { title })
UpdateTitle(id) ==
  /\ id \in ConvIdsIn(conversations)
  /\ TitleOf(conversations, id) # "mine"
  /\ LET convs2 == updateConversation(conversations, id, "mine", clock + 1)
     IN /\ conversations' = convs2
        /\ Render(convs2, currentConversationId, chatMessages, savedMessageIds,
                  firstUserMessageRef)
  /\ clock' = clock + 1
  /\ UNCHANGED <<currentConversationId, nextId, nextConv, status, streams,
                 finished, failed, titleGeneratedRef, titleReqs,
                 routeVars>>

\* a handler that commits what was streamed so far
ErrorStore_CommitsPartial(convs, s, now) ==
  IF s.conv \in ConvIdsIn(convs)
  THEN addMessage(convs, s.conv, AssistantMessage(s, Partial), now)
  ELSE convs

\* onError: (err) => { console.error('Chat error:', err); }
ErrorStore(convs, s, now) == convs

\* the request s fails before its first token or its stream breaks off:
\* onError, status 'error'; onFinish is not called
StreamError(s) ==
  /\ s \in streams
  /\ streams' = streams \ {s}
  /\ failed' = failed \cup {s.id}
  /\ status' = [status EXCEPT ![s.chat] = "error"]
  /\ LET convs2 == ErrorStore(conversations, s, clock + 1)
     IN /\ conversations' = convs2
        /\ clock' = IF convs2 = conversations THEN clock ELSE clock + 1
        /\ Render(convs2, currentConversationId, chatMessages, savedMessageIds,
                  firstUserMessageRef)
  /\ UNCHANGED <<currentConversationId, nextId, nextConv, finished,
                 titleGeneratedRef, titleReqs, routeVars>>

\* the error banner of the displayed chat is rendered: {error && (...)}
ErrorBanner(cid) == status[cid] = "error"

\* the retry button of the error banner: onClick={() => reload()}
Retry ==
  LET cid == RenderedConvId(conversations, currentConversationId)
  IN /\ ErrorBanner(cid)
     /\ Work < MaxWork
     /\ Reload(cid, chatMessages[cid], savedMessageIds, "retry", NoMsg, NoContent)
     /\ UNCHANGED <<conversations, currentConversationId, clock, nextConv,
                    finished, failed, titleGeneratedRef, titleReqs,
                    routeVars>>

\* ======================================================= app/api/chat/route
\* Text that comes from a request or the environment (model identifiers,
\* credentials, error messages) is a sequence of characters, so that
\* startsWith and includes are computed as String.prototype does.
StartsWith(s, p) == Len(s) >= Len(p) /\ SubSeq(s, 1, Len(p)) = p

Includes(s, sub) ==
  \E i \in 1..(Len(s) - Len(sub) + 1) : SubSeq(s, i, i + Len(sub) - 1) = sub

GptPrefix == <<"g", "p", "t">>
ClaudePrefix == <<"c", "l", "a", "u", "d", "e">>
GeminiPrefix == <<"g", "e", "m", "i", "n", "i">>

\* the request header that carries the per-request credential of a provider
HeaderOf(provider) ==
  CASE provider = "openai" -> "x-openai-api-key"
    [] provider = "anthropic" -> "x-anthropic-api-key"
    [] provider = "google" -> "x-google-api-key"

HeaderNames == {HeaderOf(p) : p \in Providers}

\* a router that falls back to a default provider
getProviderForModel_Default(model, apiKey) ==
  IF StartsWith(model, ClaudePrefix)
  THEN [threw |-> FALSE, provider |-> "anthropic", apiKey |-> apiKey]
  ELSE IF StartsWith(model, GeminiPrefix)
  THEN [threw |-> FALSE, provider |-> "google", apiKey |-> apiKey]
  ELSE [threw |-> FALSE, provider |-> "openai", apiKey |-> apiKey]

\* getProviderForModel(model, apiKey): the provider client, or the throw of
\* Error(`Unknown model: ${model}`)
getProviderForModel(model, apiKey) ==
  IF StartsWith(model, GptPrefix)
  THEN [threw |-> FALSE, provider |-> "openai", apiKey |-> apiKey]
  ELSE IF StartsWith(model, ClaudePrefix)
  THEN [threw |-> FALSE, provider |-> "anthropic", apiKey |-> apiKey]
  ELSE IF StartsWith(model, GeminiPrefix)
  THEN [threw |-> FALSE, provider |-> "google", apiKey |-> apiKey]
  ELSE [threw |-> TRUE, provider |-> "none", apiKey |-> Absent]

\* a || b on credentials
OrElse(a, b) == IF a # Absent THEN a ELSE b

\* the process-wide credential preferred to the per-request one
getApiKey_EnvFirst(model, headers, processEnv) ==
  IF StartsWith(model, GptPrefix)
  THEN OrElse(processEnv["openai"], headers["x-openai-api-key"])
  ELSE IF StartsWith(model, ClaudePrefix)
  THEN OrElse(processEnv["anthropic"], headers["x-anthropic-api-key"])
  ELSE IF StartsWith(model, GeminiPrefix)
  THEN OrElse(processEnv["google"], headers["x-google-api-key"])
  ELSE Absent

\* getApiKey(model, headers): headers.get(...) || process.env....
getApiKey(model, headers, processEnv) ==
  IF StartsWith(model, GptPrefix)
  THEN OrElse(headers["x-openai-api-key"], processEnv["openai"])
  ELSE IF StartsWith(model, ClaudePrefix)
  THEN OrElse(headers["x-anthropic-api-key"], processEnv["anthropic"])
  ELSE IF StartsWith(model, GeminiPrefix)
  THEN OrElse(headers["x-google-api-key"], processEnv["google"])
  ELSE Absent

\* buildApiHeaders(apiConfig): a header for every key the settings hold
buildApiHeaders(apiConfig) ==
  [h \in HeaderNames |->
     CASE h = "x-openai-api-key" -> apiConfig.openaiApiKey
       [] h = "x-anthropic-api-key" -> apiConfig.anthropicApiKey
       [] h = "x-google-api-key" -> apiConfig.googleApiKey]

\* ------------------------------------------------------------ attachments
\* Buffer.from(data, 'base64').toString('utf-8') on the payloads used here
Base64Text(data) ==
  CASE data = "aGk=" -> "hi"
    [] data = "eW8=" -> "yo"
    [] OTHER -> ""

\* an image part that loses the MIME type of the attachment
ImagePart_Jpeg(attachment) ==
  [type |-> "image", image |-> attachment.data, mimeType |-> "image/jpeg"]

\* { type: 'image', image: attachment.data, mimeType: attachment.mimeType }
ImagePart(attachment) ==
  [type |-> "image", image |-> attachment.data, mimeType |-> attachment.mimeType]

\* { type: 'text', text: `[Document: ${attachment.name}]\n${decodedContent}` };
\* a text is the sequence of the fragments it is concatenated from
DocumentPart(attachment) ==
  [type |-> "text",
   text |-> <<"[Document: ", attachment.name, "]\n", Base64Text(attachment.data)>>]

\* convertAttachmentToContent(attachment)
convertAttachmentToContent(attachment) ==
  IF attachment.type = "image" THEN ImagePart(attachment) ELSE DocumentPart(attachment)

\* the text part of the message content, if (message.content)
ContentParts(message) ==
  IF message.content # NoContent
  THEN <<[type |-> "text", text |-> <<message.content>>]>>
  ELSE <<>>

\* for (const attachment of message.attachments) contentParts.push(...)
AttachmentParts(attachments) ==
  [i \in DOMAIN attachments |-> convertAttachmentToContent(attachments[i])]

\* a message whose content is a text
TextMessage(role, content) ==
  [role |-> role, multipart |-> FALSE, text |-> content, parts |-> <<>>]

\* a message whose content is a list of parts
PartsMessage(role, parts) ==
  [role |-> role, multipart |-> TRUE, text |-> NoContent, parts |-> parts]

\* the callback of messages.map in formatMessagesWithAttachments; attachments
\* = <<>> stands for a missing or empty attachment list
FormatMessage(message) ==
  IF Len(message.attachments) = 0
  THEN IF message.role = "user"
       THEN TextMessage("user", message.content)
       ELSE TextMessage("assistant", message.content)
  ELSE IF message.role = "user"
       THEN PartsMessage("user", ContentParts(message)
                                   \o AttachmentParts(message.attachments))
       ELSE TextMessage("assistant", message.content)

\* formatMessagesWithAttachments(messages)
formatMessagesWithAttachments(messages) ==
  [i \in DOMAIN messages |-> FormatMessage(messages[i])]

\* ------------------------------------------------------------------- POST
RateLimitText == <<"r", "a", "t", "e", " ", "l", "i", "m", "i", "t">>
Code429 == <<"4", "2", "9">>
Code401 == <<"4", "0", "1">>
AuthenticationText == <<"a", "u", "t", "h", "e", "n", "t", "i", "c", "a", "t", "i", "o", "n">>
UnauthorizedText == <<"u", "n", "a", "u", "t", "h", "o", "r", "i", "z", "e", "d">>

\* a JSON failure answer: new Response(JSON.stringify({ message, status }),
\* { status }); the message is a literal followed by an interpolated value
Failure(text, arg, code) ==
  [status |-> code, json |-> TRUE, stream |-> FALSE,
   body |-> [message |-> [text |-> text, arg |-> arg], status |-> code],
   upstream |-> <<>>]

\* result.toDataStreamResponse() after streamText({...}) was handed call
Streaming(call) ==
  [status |-> 200, json |-> FALSE, stream |-> TRUE,
   body |-> [message |-> [text |-> "", arg |-> Absent], status |-> 200],
   upstream |-> <<call>>]

\* the first test of the catch block
IsRateLimit(error) ==
  error.isError /\ (Includes(error.message, RateLimitText)
                      \/ Includes(error.message, Code429))

\* the second test of the catch block
IsAuthFailure(error) ==
  error.isError /\ (\/ Includes(error.message, Code401)
                    \/ Includes(error.message, AuthenticationText)
                    \/ Includes(error.message, UnauthorizedText))

\* a catch block that answers every caught error alike
Caught_Always500(error) ==
  Failure("An error occurred while processing your request", Absent, 500)

\* the catch block of POST
Caught(error) ==
  IF IsRateLimit(error)
  THEN Failure("Too many requests. Please try again later.", Absent, 429)
  ELSE IF IsAuthFailure(error)
  THEN Failure("API authentication failed", Absent, 401)
  ELSE Failure("An error occurred while processing your request", Absent, 500)

\* a credential test that lets every request pass
NoCredential_Never(apiKey) == FALSE

\* if (!apiKey)
NoCredential(apiKey) == apiKey = Absent

\* !messages || !Array.isArray(messages)
MessagesMissing(messages) == messages.kind # "array"

\* the falsy values of a system prompt: undefined and ''
FalsyPrompt(prompt) == prompt \in {Undefined, ""}

\* the global prompt preferred to the conversation's own
systemPrompt_GlobalFirst(conversationPrompt, globalSystemPrompt) ==
  IF ~FalsyPrompt(globalSystemPrompt) THEN globalSystemPrompt
  ELSE conversationPrompt

\* const systemPrompt = currentConversation?.systemPrompt
\*                        || settings.globalSystemPrompt
systemPrompt(conversationPrompt, globalSystemPrompt) ==
  IF ~FalsyPrompt(conversationPrompt) THEN conversationPrompt
  ELSE globalSystemPrompt

\* system: systemPrompt || undefined
SystemOf(prompt) == IF FalsyPrompt(prompt) THEN Undefined ELSE prompt

\* the call POST hands to streamText
UpstreamCall(body, provider) ==
  [provider |-> provider.provider, apiKey |-> provider.apiKey,
   model |-> body.model, system |-> SystemOf(body.systemPrompt),
   messages |-> formatMessagesWithAttachments(body.messages.items)]

\* POST(request): body and headers are the request, processEnv the process
\* environment, thrown what request.json() ("json") or the code from
\* formatMessagesWithAttachments to toDataStreamResponse ("stream") throws,
\* if anything
POST(body, headers, processEnv, thrown) ==
  IF thrown.stage = "json" THEN Caught(thrown)
  ELSE IF MessagesMissing(body.messages)
  THEN Failure("Messages array is required", Absent, 400)
  ELSE IF body.model = Absent
  THEN Failure("Model is required", Absent, 400)
  ELSE LET apiKey == getApiKey(body.model, headers, processEnv)
           provider == getProviderForModel(body.model, apiKey)
       IN IF NoCredential(apiKey)
          THEN Failure("API key not configured", Absent, 401)
          ELSE IF provider.threw
          THEN Failure("Unknown model: ", body.model, 400)
          ELSE IF thrown.stage = "stream" THEN Caught(thrown)
          ELSE Streaming(UpstreamCall(body, provider))

\* ------------------------------------------------------- route: inputs
EnvKey(provider) ==
  CASE provider = "openai" -> <<"e", "o">>
    [] provider = "anthropic" -> <<"e", "a">>
    [] provider = "google" -> <<"e", "g">>

HeaderKey(provider) ==
  CASE provider = "openai" -> <<"h", "o">>
    [] provider = "anthropic" -> <<"h", "a">>
    [] provider = "google" -> <<"h", "g">>

Environments == {e \in [Providers -> {Absent} \cup {EnvKey(p) : p \in Providers}] :
                   \A p \in Providers : e[p] \in {Absent, EnvKey(p)}}

ApiConfigs ==
  [openaiApiKey : {Absent, HeaderKey("openai")},
   anthropicApiKey : {Absent, HeaderKey("anthropic")},
   googleApiKey : {Absent, HeaderKey("google")}]

Models ==
  {<<"g", "p", "t", "-", "4", "o">>,
   <<"g", "p", "t">>,
   <<"g", "p">>,
   <<"c", "l", "a", "u", "d", "e", "-", "3", "-", "h", "a", "i", "k", "u", "-", "2", "0", "2", "4", "0", "3", "0", "7">>,
   <<"g", "e", "m", "i", "n", "i", "-", "p", "r", "o">>,
   <<"l", "l", "a", "m", "a", "-", "x">>,
   <<>>,
   <<"x", "g", "p", "t">>,
   <<"G", "P", "T", "-", "4">>}

ApiKeys == {Absent} \cup {EnvKey(p) : p \in Providers}
             \cup {HeaderKey(p) : p \in Providers}

Image == [type |-> "image", name |-> "cat.png", data |-> "iVBO", mimeType |-> "image/png"]
Document == [type |-> "document", name |-> "notes.txt", data |-> "aGk=",
             mimeType |-> "text/plain"]

RECURSIVE SeqsUpTo(_, _)
SeqsUpTo(S, n) ==
  IF n = 0 THEN {<<>>}
  ELSE LET shorter == SeqsUpTo(S, n - 1)
       IN shorter \cup {Append(q, x) : q \in shorter, x \in S}

StoredMessages ==
  [role : {"user", "assistant", "system"}, content : {NoContent, "hi"},
   attachments : SeqsUpTo({Image, Document}, MaxAttachments)]

MessageLists == SeqsUpTo(StoredMessages, MaxMessages)

\* the messages field of a request body: missing, a string, or an array
PostMessages ==
  {[kind |-> "undefined", items |-> <<>>], [kind |-> "string", items |-> <<>>]}
    \cup {[kind |-> "array", items |-> ms] :
            ms \in {<<>>,
                    <<[role |-> "user", content |-> "hi", attachments |-> <<>>]>>,
                    <<[role |-> "user", content |-> "hi", attachments |-> <<Image>>]>>}}

Bodies ==
  [messages : PostMessages, model : Models,
   systemPrompt : {Undefined, "", "be brief"}]

NoThrow == [stage |-> "none", isError |-> FALSE, message |-> Absent]

ErrorTexts ==
  {<<"r", "a", "t", "e", " ", "l", "i", "m", "i", "t">>,
   <<"R", "a", "t", "e", " ", "l", "i", "m", "i", "t">>,
   <<"4", "2", "9">>,
   <<"4", "0", "1">>,
   <<"e", "4", "2", "9", " ", "4", "0", "1">>,
   <<"u", "n", "a", "u", "t", "h", "o", "r", "i", "z", "e", "d">>,
   <<"a", "u", "t", "h", "e", "n", "t", "i", "c", "a", "t", "i", "o", "n">>,
   <<"b", "o", "o", "m">>}

\* what the code inside the try block can throw: nothing, a SyntaxError of
\* request.json(), an Error with some message, or a value that is no Error
Thrown ==
  {NoThrow, [stage |-> "json", isError |-> TRUE, message |-> <<"b", "a", "d", " ", "j", "s", "o", "n">>]}
    \cup {[stage |-> "stream", isError |-> TRUE, message |-> m] : m \in ErrorTexts}
    \cup {[stage |-> "stream", isError |-> FALSE, message |-> Code429]}

\* ------------------------------------------------------ route: actions
\* a request arrives at POST /api/chat and is answered
Post ==
  \E body \in Bodies, apiConfig \in ApiConfigs, thrown \in Thrown :
     /\ apiCall = NoCall
     /\ apiCall' = [op |-> "POST", body |-> body,
                    headers |-> buildApiHeaders(apiConfig), thrown |-> thrown,
                    response |-> POST(body, buildApiHeaders(apiConfig), env, thrown)]
     /\ UNCHANGED <<env, gatewayVars, chatVars>>

\* getProviderForModel is applied to a model and a credential
ResolveProvider ==
  \E model \in Models, apiKey \in ApiKeys :
     /\ apiCall = NoCall
     /\ apiCall' = [op |-> "getProviderForModel", model |-> model,
                    apiKey |-> apiKey,
                    result |-> getProviderForModel(model, apiKey)]
     /\ UNCHANGED <<env, gatewayVars, chatVars>>

\* getApiKey is applied to a model and the headers of a request
ResolveApiKey ==
  \E model \in Models, apiConfig \in ApiConfigs :
     /\ apiCall = NoCall
     /\ apiCall' = [op |-> "getApiKey", model |-> model,
                    headers |-> buildApiHeaders(apiConfig),
                    result |-> getApiKey(model, buildApiHeaders(apiConfig), env)]
     /\ UNCHANGED <<env, gatewayVars, chatVars>>

\* formatMessagesWithAttachments is applied to a message list
Format ==
  \E messages \in MessageLists :
     /\ apiCall = NoCall
     /\ apiCall' = [op |-> "formatMessagesWithAttachments", messages |-> messages,
                    result |-> formatMessagesWithAttachments(messages)]
     /\ UNCHANGED <<env, gatewayVars, chatVars>>

\* the body useChat posts for a conversation: body: { model, systemPrompt }
\* and the working messages
ChatBody(conversationPrompt, globalSystemPrompt) ==
  [messages |-> [kind |-> "array",
                 items |-> <<[role |-> "user", content |-> "hi",
                              attachments |-> <<>>]>>],
   model |-> <<"g", "p", "t", "-", "4", "o">>,
   systemPrompt |-> systemPrompt(conversationPrompt, globalSystemPrompt)]

\* ChatContainer posts a request for a conversation with the given prompt
\* settings and the route answers it
ChatRequest ==
  \E conversationPrompt \in {Undefined, "", "be brief"},
     globalSystemPrompt \in {"", "be kind"}, apiConfig \in ApiConfigs :
     /\ apiCall = NoCall
     /\ apiCall' =
          [op |-> "chat", conversationPrompt |-> conversationPrompt,
           globalSystemPrompt |-> globalSystemPrompt,
           response |-> POST(ChatBody(conversationPrompt, globalSystemPrompt),
                             buildApiHeaders(apiConfig), env, NoThrow)]
     /\ UNCHANGED <<env, gatewayVars, chatVars>>

\* the call has returned its result; the route is idle again
Return ==
  /\ apiCall # NoCall
  /\ apiCall' = NoCall
  /\ UNCHANGED <<env, gatewayVars, chatVars>>

\* ============================================= app/api/generate-title/route
\* const MAX_TITLE_LENGTH = 50
MAX_TITLE_LENGTH == 50

\* the title returned when there is nothing to make one from
DefaultTitle == <<"N", "e", "w">>

Ellipsis == <<".", ".", ".">>

\* the characters \s matches and trim() strips
Whitespace == {" ", "\n"}

\* the characters of [。！？.!?] that occur in the texts used here
SentenceEnds == {".", "!", "?"}

Quotes == {"\"", "'"}

\* s.substring(0, end)
Substring(s, end) == SubSeq(s, 1, IF end < Len(s) THEN end ELSE Len(s))

\* s.trim()
Trim(s) ==
  LET solid == {i \in DOMAIN s : s[i] \notin Whitespace}
  IN IF solid = {} THEN <<>>
     ELSE SubSeq(s, CHOOSE i \in solid : \A j \in solid : i <= j,
                    CHOOSE i \in solid : \A j \in solid : i >= j)

\* s.replace(/\s+/g, ' '): every run of whitespace becomes one space
CollapseWhitespace(s) ==
  LET kept == SelectSeq([i \in DOMAIN s |->
                           IF s[i] \notin Whitespace THEN s[i]
                           ELSE IF i = 1 \/ s[i - 1] \notin Whitespace
                           THEN " " ELSE "drop"],
                        LAMBDA c : c # "drop")
  IN kept

\* s.replace(/^["']|["']$/g, ''): a leading quote and a trailing quote go
StripQuotes(s) ==
  LET rest == IF s # <<>> /\ Head(s) \in Quotes THEN Tail(s) ELSE s
  IN IF rest # <<>> /\ rest[Len(rest)] \in Quotes
     THEN SubSeq(rest, 1, Len(rest) - 1) ELSE rest

\* s.search(/[。！？.!?]/): index from 0 of the first match, -1 without one
Search(s) ==
  LET hits == {i \in DOMAIN s : s[i] \in SentenceEnds}
  IN IF hits = {} THEN -1
     ELSE (CHOOSE i \in hits : \A j \in hits : i <= j) - 1

\* if (title.length > MAX_TITLE_LENGTH) substring(0, MAX - 3) + '...'
Truncate(title) ==
  IF Len(title) > MAX_TITLE_LENGTH
  THEN Substring(title, MAX_TITLE_LENGTH - 3) \o Ellipsis
  ELSE title

\* generateFallbackTitle(message)
generateFallbackTitle(message) ==
  IF message = <<>> \/ Trim(message) = <<>> THEN DefaultTitle
  ELSE LET clean == CollapseWhitespace(Trim(message))
           sentenceEnd == Search(clean)
           first == IF sentenceEnd > 0 /\ sentenceEnd < MAX_TITLE_LENGTH
                    THEN Substring(clean, sentenceEnd + 1) ELSE clean
       IN Truncate(first)

\* getOpenAIApiKey(headers)
getOpenAIApiKey(headers, processEnv) ==
  OrElse(headers["x-openai-api-key"], processEnv["openai"])

TitleResponse(code, title) == [status |-> code, title |-> title]

\* the title made from the text generateText returned
TitleFromText(text, message) ==
  LET stripped == StripQuotes(Trim(text))
  IN Truncate(IF stripped = <<>> THEN generateFallbackTitle(message)
              ELSE stripped)

\* POST of the title route for a body whose message is a string. generated is
\* what generateText does (it throws or returns a text); cloned tells whether
\* request.clone() of the catch block succeeds on the request already read.
generateTitlePOST(message, headers, processEnv, generated, cloned) ==
  IF message = <<>> THEN TitleResponse(400, <<>>)
  ELSE IF getOpenAIApiKey(headers, processEnv) = Absent
  THEN TitleResponse(200, generateFallbackTitle(message))
  ELSE IF generated.threw
  THEN IF cloned THEN TitleResponse(200, generateFallbackTitle(message))
       ELSE TitleResponse(200, DefaultTitle)
  ELSE TitleResponse(200, TitleFromText(generated.text, message))

\* --------------------------------------------------- title route: inputs
Run(c, n) == [i \in 1..n |-> c]

\* the pieces the texts are made of: the characters the route treats
\* specially and runs around the length limit
Pieces == {<<" ">>, <<"\"">>, <<".">>, <<"a">>,
           Run("a", MAX_TITLE_LENGTH - 4), Run("a", MAX_TITLE_LENGTH)}

RECURSIVE TextsOf(_)
TextsOf(n) ==
  IF n = 0 THEN {<<>>}
  ELSE LET shorter == TextsOf(n - 1)
       IN shorter \cup {t \o piece : t \in shorter, piece \in Pieces}

Texts == TextsOf(MaxPieces)

\* the texts generateText returns: empty, blank, quoted, short and too long
Replies == {<<>>, <<" ">>, <<"\"">>, <<"\"", " ", "\"">>, <<".">>,
            <<" ", "\"", "a", "'", "\n">>,
            Run("a", MAX_TITLE_LENGTH), Run("a", MAX_TITLE_LENGTH + 1),
            <<"'">> \o Run("a", MAX_TITLE_LENGTH + 1) \o <<"'">>}

Generated ==
  {[threw |-> TRUE, text |-> <<>>]} \cup [threw : {FALSE}, text : Replies]

\* a title request is answered
GenerateTitle ==
  \E message \in Texts, key \in {Absent, HeaderKey("openai")},
     generated \in Generated, cloned \in BOOLEAN :
     LET headers == buildApiHeaders([openaiApiKey |-> key,
                                     anthropicApiKey |-> Absent,
                                     googleApiKey |-> Absent])
     IN /\ apiCall = NoCall
        /\ apiCall' =
             [op |-> "generate-title", message |-> message,
              apiKey |-> getOpenAIApiKey(headers, env),
              generated |-> generated,
              response |-> generateTitlePOST(message, headers, env,
                                             generated, cloned)]
        /\ UNCHANGED <<env, gatewayVars, chatVars>>

\* ================================== lib/storage and app/api/conversations
JsonExt == <<".", "j", "s", "o", "n">>

Digits == <<"1", "2", "3", "4", "5", "6", "7", "8", "9">>

\* `${id}.json`
FileNameOf(id) == <<Digits[id]>> \o JsonExt

\* f.endsWith('.json')
EndsWith(s, suffix) ==
  Len(s) >= Len(suffix) /\ SubSeq(s, Len(s) - Len(suffix) + 1, Len(s)) = suffix

\* JSON.stringify(conversation, null, 2): a text JSON.parse reads back
Stringify(conversation) == [parses |-> TRUE, data |-> conversation]

\* a text JSON.parse throws a SyntaxError on
Corrupt == [parses |-> FALSE]

\* the callback of jsonFiles.map throws: JSON.parse on an unparseable text,
\* data.messages.map on a document without a message list
ReadThrows(file) ==
  \/ ~file.content.parses
  \/ "messages" \notin DOMAIN file.content.data

\* conversations.sort((a, b) => b.updatedAt - a.updatedAt), a stable sort
SortByUpdatedAt(convs) ==
  LET rank(i) == 1 + Cardinality({j \in DOMAIN convs :
                        \/ convs[j].updatedAt > convs[i].updatedAt
                        \/ convs[j].updatedAt = convs[i].updatedAt /\ j < i})
  IN [k \in DOMAIN convs |-> convs[CHOOSE i \in DOMAIN convs : rank(i) = k]]

\* readConversations()
readConversations(dir) ==
  LET jsonFiles == SelectSeq(dir, LAMBDA f : EndsWith(f.name, JsonExt))
  IN IF \E i \in DOMAIN jsonFiles : ReadThrows(jsonFiles[i])
     THEN [threw |-> TRUE, conversations |-> <<>>]
     ELSE [threw |-> FALSE,
           conversations |->
             SortByUpdatedAt([i \in DOMAIN jsonFiles |->
                                jsonFiles[i].content.data])]

FileIndex(dir, name) ==
  IF \E i \in DOMAIN dir : dir[i].name = name
  THEN CHOOSE i \in DOMAIN dir : dir[i].name = name
  ELSE 0

\* writeConversation(conversation): fs.writeFile creates or replaces the file
writeConversation(dir, conversation) ==
  LET file == [name |-> FileNameOf(conversation.id),
               content |-> Stringify(conversation)]
  IN IF FileIndex(dir, file.name) = 0 THEN Append(dir, file)
     ELSE [dir EXCEPT ![FileIndex(dir, file.name)] = file]

\* deleteConversation(id) of lib/storage: fs.unlink, which throws ENOENT
\* when there is no such file
unlinkConversation(dir, id) ==
  IF FileIndex(dir, FileNameOf(id)) = 0
  THEN [threw |-> TRUE, files |-> dir]
  ELSE [threw |-> FALSE,
        files |-> SelectSeq(dir, LAMBDA f : f.name # FileNameOf(id))]

\* GET of the conversations route
conversationsGET(dir) ==
  IF readConversations(dir).threw
  THEN [status |-> 500, body |-> <<>>]
  ELSE [status |-> 200, body |-> readConversations(dir).conversations]

\* ------------------------------------------------------ storage: inputs
StoredIds == 1..MaxFiles

Stamps == {1, 2}

\* conversations as they are written to the storage directory
StoredConversations ==
  [id : StoredIds, title : {Placeholder}, messages : {<<>>},
   model : {DefaultModel}, updatedAt : Stamps]

\* a parseable document that is not a conversation: it has no message list
Truncated(id) == [parses |-> TRUE, data |-> [id |-> id, updatedAt |-> 1]]

\* the files a storage directory may hold: conversation documents, damaged
\* ones, and a file that is not a .json file
StoredFiles ==
  {[name |-> FileNameOf(c.id), content |-> Stringify(c)] :
      c \in StoredConversations}
  \cup {[name |-> FileNameOf(id), content |-> Corrupt] : id \in StoredIds}
  \cup {[name |-> FileNameOf(id), content |-> Truncated(id)] : id \in StoredIds}
  \cup {[name |-> <<"n", ".", "t", "x", "t">>, content |-> Corrupt]}

Directories ==
  {dir \in SeqsUpTo(StoredFiles, MaxFiles) :
     \A i, j \in DOMAIN dir : dir[i].name = dir[j].name => i = j}

\* ----------------------------------------------------- storage: actions
\* GET /api/conversations
ConversationsGET ==
  /\ apiCall = NoCall
  /\ apiCall' = [op |-> "GET conversations", response |-> conversationsGET(files)]
  /\ UNCHANGED <<env, gatewayVars, chatVars>>

\* POST /api/conversations with a conversation in the body
ConversationsPOST ==
  \E conversation \in StoredConversations, hasId \in BOOLEAN :
     /\ apiCall = NoCall
     /\ IF hasId
        THEN /\ files' = writeConversation(files, conversation)
             /\ apiCall' = [op |-> "POST conversations",
                            response |-> [status |-> 200, body |-> <<>>]]
        ELSE /\ files' = files
             /\ apiCall' = [op |-> "POST conversations",
                            response |-> [status |-> 400, body |-> <<>>]]
     /\ UNCHANGED <<env, gatewayCalls, chatVars>>

\* DELETE /api/conversations with an id in the body
ConversationsDELETE ==
  \E id \in StoredIds :
     /\ apiCall = NoCall
     /\ files' = unlinkConversation(files, id).files
     /\ apiCall' = [op |-> "DELETE conversations",
                    response |->
                      [status |-> IF unlinkConversation(files, id).threw
                                  THEN 404 ELSE 200,
                       body |-> <<>>]]
     /\ UNCHANGED <<env, gatewayCalls, chatVars>>

\* ========================================= useChatStore, called directly
\* the ids a caller passes to the store
StoreIds == 1..MaxOps

\* the conversation with the given id as an earlier session left it
LoadedConversation(id) ==
  [id |-> id, title |-> IF id = 1 THEN "t" ELSE Placeholder,
   messages |-> <<[id |-> 2 * id - 1, role |-> "user", content |-> "a"],
                  [id |-> 2 * id, role |-> "assistant", content |-> Reply]>>,
   model |-> DefaultModel, systemPrompt |-> Undefined,
   isPinned |-> FALSE, isArchived |-> FALSE,
   createdAt |-> 0, updatedAt |-> 0]

\* the list of the conversations n, ..., 1
LoadedList(n) == [i \in 1..n |-> LoadedConversation(n + 1 - i)]

\* the updates callers pass to updateConversation
Updates ==
  {[title |-> "t2"], [model |-> "gpt-4"], [systemPrompt |-> "be brief"],
   [title |-> "t2", updatedAt |-> 0]}

Larger(a, b) == IF a > b THEN a ELSE b

\* what a store call leaves: the list, the selection and the time
StoreCall(call, convs, cur) ==
  /\ clock < MaxOps
  /\ conversations' = convs
  /\ currentConversationId' = cur
  /\ clock' = clock + 1
  /\ apiCall' = call
  /\ UNCHANGED <<chatMessages, status, streams, finished, failed,
                 savedMessageIds, prevConversationId, titleGeneratedRef,
                 firstUserMessageRef, titleReqs, env, gatewayVars>>

StoreCreate ==
  /\ nextConv' = nextConv + 1
  /\ StoreCall([op |-> "createConversation", id |-> nextConv + 1],
               createConversation(conversations, nextConv + 1, clock + 1),
               nextConv + 1)
  /\ UNCHANGED nextId

StoreDelete ==
  \E id \in StoreIds :
     /\ StoreCall([op |-> "deleteConversation", id |-> id],
                  deleteConversation(conversations, id),
                  deleteCurrentId(conversations, currentConversationId, id))
     /\ UNCHANGED <<nextConv, nextId>>

StoreUpdate ==
  \E id \in StoreIds, updates \in Updates :
     /\ StoreCall([op |-> "updateConversation", id |-> id, updates |-> updates],
                  updateConversationPartial(conversations, id, updates,
                                            clock + 1),
                  currentConversationId)
     /\ UNCHANGED <<nextConv, nextId>>

StoreSetCurrent ==
  \E id \in StoreIds \cup {NoConv} :
     /\ StoreCall([op |-> "setCurrentConversation", id |-> id],
                  conversations, id)
     /\ UNCHANGED <<nextConv, nextId>>

StorePin ==
  \E id \in StoreIds :
     /\ StoreCall([op |-> "pinConversation", id |-> id],
                  pinConversation(conversations, id, clock + 1),
                  currentConversationId)
     /\ UNCHANGED <<nextConv, nextId>>

StoreArchive ==
  \E id \in StoreIds :
     /\ StoreCall([op |-> "archiveConversation", id |-> id],
                  archiveConversation(conversations, id, clock + 1),
                  currentConversationId)
     /\ UNCHANGED <<nextConv, nextId>>

StoreAddMessage ==
  \E id \in StoreIds :
     LET message == [id |-> generateMessageId(nextId + 1), role |-> "user",
                     content |-> "b"]
     IN /\ nextId' = nextId + 1
        /\ StoreCall([op |-> "addMessage", id |-> id, message |-> message],
                     addMessage(conversations, id, message, clock + 1),
                     currentConversationId)
        /\ UNCHANGED nextConv

StoreUpdateMessage ==
  \E id \in StoreIds, messageId \in 1..2 :
     /\ StoreCall([op |-> "updateMessage", id |-> id,
                   messageId |-> messageId, content |-> "c"],
                  updateMessage(conversations, id, messageId, "c", clock + 1),
                  currentConversationId)
     /\ UNCHANGED <<nextConv, nextId>>

\* loadConversations(conversations) with a list of an earlier session
StoreLoad ==
  \E n \in 0..MaxOps :
     /\ nextConv' = Larger(nextConv, n)
     /\ nextId' = Larger(nextId, 2 * n)
     /\ StoreCall([op |-> "loadConversations", list |-> LoadedList(n)],
                  LoadedList(n), currentConversationId)

\* ------------------------------------------------------- specifications
Next ==
  \/ CreateConversation
  \/ \E id \in ConvIds : SetCurrentConversation(id)
  \/ \E id \in ConvIds : DeleteConversation(id)
  \/ \E content \in Contents : HandleSend(content)
  \/ \E messageId \in 1..nextId : HandleRegenerate(messageId)
  \/ \E messageId \in 1..nextId, content \in Contents : HandleEdit(messageId, content)
  \/ \E s \in streams : StreamUpdate(s)
  \/ \E s \in streams : StreamFinish(s)
  \/ \E k \in DOMAIN titleReqs : TitleResolved(k)

Spec == Init /\ [][Next]_vars

\* the chat with a store caller that retitles conversations while results
\* are on their way
NextLate ==
  \/ CreateConversation
  \/ \E id \in ConvIds : DeleteConversation(id)
  \/ \E content \in Contents : HandleSend(content)
  \/ \E s \in streams : StreamUpdate(s)
  \/ \E s \in streams : StreamFinish(s)
  \/ \E k \in DOMAIN titleReqs : TitleResolved(k)
  \/ \E id \in ConvIds : UpdateTitle(id)

SpecLate == Init /\ [][NextLate]_vars

\* the completion callbacks of one conversation lane, with repeated delivery
NextCommit ==
  \/ CreateConversation
  \/ \E content \in Contents : HandleSend(content)
  \/ \E s \in streams : StreamUpdate(s)
  \/ \E s \in streams : StreamFinish(s)
  \/ \E f \in finished : DuplicateFinish(f)

SpecCommit == Init /\ [][NextCommit]_vars

\* the chat with requests that fail and the retry the banner offers
\* (conversations are not deleted and title calls stay pending)
NextError ==
  \/ CreateConversation
  \/ \E id \in ConvIds : SetCurrentConversation(id)
  \/ \E content \in Contents : HandleSend(content)
  \/ \E messageId \in 1..nextId : HandleRegenerate(messageId)
  \/ \E messageId \in 1..nextId, content \in Contents : HandleEdit(messageId, content)
  \/ \E s \in streams : StreamUpdate(s)
  \/ \E s \in streams : StreamFinish(s)
  \/ \E s \in streams : StreamError(s)
  \/ Retry

SpecError == Init /\ [][NextError]_vars

InitRoute ==
  /\ InitChat
  /\ InitGateway
  /\ env \in Environments
  /\ apiCall = NoCall

\* the chat route and its helpers, applied to requests and inputs
NextRoute ==
  \/ Post
  \/ ResolveProvider
  \/ ResolveApiKey
  \/ Format
  \/ ChatRequest
  \/ Return

SpecRoute == InitRoute /\ [][NextRoute]_vars

\* the title route reads OPENAI_API_KEY only
InitTitle ==
  /\ InitChat
  /\ InitGateway
  /\ env \in {e \in Environments :
                e["anthropic"] = Absent /\ e["google"] = Absent}
  /\ apiCall = NoCall

NextTitle ==
  \/ GenerateTitle
  \/ Return

SpecTitle == InitTitle /\ [][NextTitle]_vars

\* the storage directory as found when the server starts
InitStorage ==
  /\ InitChat
  /\ files \in Directories
  /\ gatewayCalls = <<>>
  /\ env = [p \in Providers |-> Absent]
  /\ apiCall = NoCall

NextStorage ==
  \/ ConversationsGET
  \/ ConversationsPOST
  \/ ConversationsDELETE
  \/ Return

SpecStorage == InitStorage /\ [][NextStorage]_vars

NextStore ==
  \/ StoreCreate
  \/ StoreDelete
  \/ StoreUpdate
  \/ StoreSetCurrent
  \/ StorePin
  \/ StoreArchive
  \/ StoreAddMessage
  \/ StoreUpdateMessage
  \/ StoreLoad

SpecStore == Init /\ [][NextStore]_vars

TypeOK ==
  /\ currentConversationId \in ChatKeys
  /\ prevConversationId \in ChatKeys
  /\ nextId \in 0..(3 * MaxWork)
  /\ \A s \in streams : s.id \in 1..nextId
  /\ Work <= MaxWork
  /\ prevConversationId = RenderedConvId(conversations, currentConversationId)
\* ------------------------------------------------------------ properties
StoredConvs == ConvIdsIn(conversations)

Displayed == RenderedConvId(conversations, currentConversationId)

TitleReqsFor(c) == {k \in DOMAIN titleReqs : titleReqs[k].conv = c}

AssistantIds(ms) == {ms[j].id : j \in {k \in DOMAIN ms : ms[k].role = "assistant"}}

\* the requests whose stream completes in this step
Finishing == {s \in streams : \E f \in finished' : f.id = s.id}

\* the requests that fail in this step
Failing ==
  {s \in streams : /\ \A t \in streams' : t.id # s.id
                   /\ \A f \in finished' : f.id # s.id}

\* the completed requests whose completion signal is delivered again in this step
Redelivered ==
  {f \in finished : \E g \in finished' : g.id = f.id /\ g.deliveries = f.deliveries + 1}

\* the requests this step dispatches
Dispatched == {t \in streams' : \A s \in streams : s.id # t.id}

\* a delivery of the completion signal of s that commits the message
Commits(s) ==
  /\ MessagesOf(conversations', s.conv) =
       Append(MessagesOf(conversations, s.conv), AssistantMessage(s, Reply))
  /\ s.id \in savedMessageIds'

\* a delivery of a completion signal that changes nothing
NoOp ==
  /\ conversations' = conversations
  /\ savedMessageIds' = savedMessageIds
  /\ titleReqs' = titleReqs
  /\ chatMessages' = chatMessages

\* C1: completion callbacks delivered for the displayed conversation commit a
\* message identifier exactly once: the first delivery appends the message
\* and records the identifier in savedMessageIds in the same step, every
\* later delivery for that identifier changes nothing.
C1_CommitIdempotent ==
  /\ [](\A f \in finished :
          f.conv = Displayed
             => Occurrences(MessagesOf(conversations, f.conv), f.id) = 1)
  /\ [][\A s \in Finishing : s.conv = Displayed => Commits(s)]_vars
  /\ [][\A f \in Redelivered : f.conv = Displayed => NoOp]_vars

C1_Witness ==
  \E f \in finished :
     /\ f.deliveries >= 2
     /\ f.conv = Displayed
     /\ f.id \in savedMessageIds
     /\ Occurrences(MessagesOf(conversations, f.conv), f.id) = 1

\* C2: a request dispatched in conversation A survives a switch to another
\* conversation, and when it completes while A is not displayed its assistant
\* message is appended to A's stored list and to no other list.
C2_BackgroundCommit ==
  /\ [][currentConversationId' # currentConversationId => streams' = streams]_vars
  /\ [][\A s \in Finishing :
          (s.conv # Displayed /\ s.conv \in StoredConvs)
             => /\ MessagesOf(conversations', s.conv) =
                     Append(MessagesOf(conversations, s.conv),
                            AssistantMessage(s, Reply))
                /\ \A c \in ConvIds \ {s.conv} :
                     MessagesOf(conversations', c) = MessagesOf(conversations, c)]_vars

\* a request completed since the last switch, for a conversation that is not
\* the displayed one
C2_Witness ==
  \E f \in finished :
     /\ Displayed \in StoredConvs
     /\ f.conv \in StoredConvs
     /\ f.conv # Displayed
     /\ f.id \in savedMessageIds
     /\ Occurrences(MessagesOf(conversations, f.conv), f.id) = 1
     /\ \A c \in StoredConvs \ {f.conv} :
          Occurrences(MessagesOf(conversations, c), f.id) = 0

\* C3: no stored message list contains the same message identifier twice.
C3_UniqueIds ==
  \A c \in StoredConvs :
     \A id \in MsgIds(MessagesOf(conversations, c)) :
        Occurrences(MessagesOf(conversations, c), id) = 1

\* a stored list that a completed regenerate or edit has appended to
C3_Witness ==
  \E c \in StoredConvs :
     LET ms == MessagesOf(conversations, c)
     IN /\ Len(ms) >= 3
        /\ \E j \in 1..(Len(ms) - 1) :
              ms[j].role = "assistant" /\ ms[j + 1].role = "assistant"

\* C4: handleRegenerate for the assistant message at index i of the working
\* list installs exactly the messages before i as the working list and
\* removes the target from savedMessageIds before it issues the request;
\* when that prefix ends with a user message it is also the working list the
\* step leaves and the outbound snapshot of the request; a regenerate request
\* is only ever issued for an identifier found in the working list.
C4_RegenerateTruncates ==
  [][\A t \in Dispatched :
       t.kind = "regenerate" =>
         LET ms == chatMessages[Displayed]
             i == FindIndex(ms, t.target)
         IN /\ i # 0
            /\ t.chat = Displayed
            /\ t.list = SubSeq(ms, 1, i - 1)
            /\ t.list[Len(t.list)].role = "user"
                 => /\ chatMessages'[Displayed] = t.list
                    /\ t.msgs = t.list
            /\ t.target \notin savedMessageIds'
            /\ savedMessageIds' = savedMessageIds \ {t.target}]_vars

\* the regenerate of A2 in [U1, A1, U2, A2], just issued
C4_Witness ==
  \E t \in streams :
     /\ t.kind = "regenerate"
     /\ t.state = "submitted"
     /\ t.chat = Displayed
     /\ chatMessages[Displayed] = t.list
     /\ Len(t.list) = 3
     /\ Len(MessagesOf(conversations, Displayed)) >= 4
     /\ MessagesOf(conversations, Displayed)[4].id = t.target
     /\ t.target \notin savedMessageIds

\* C5: when a regenerate of assistant message A completes, the stored list of
\* the conversation no longer contains A.
C5_RegenerateDiscards ==
  [][\A s \in Finishing :
       (s.kind = "regenerate" /\ s.conv \in StoredConvs)
          => s.target \notin MsgIds(MessagesOf(conversations', s.conv))]_vars

\* C6: handleEdit for the user message at index i with new content c leaves
\* the messages before i followed by that message with content c (same id and
\* role) as the working list and as the outbound snapshot of the request it
\* issues, and removes the identifiers of all messages from index i onward
\* from savedMessageIds; an edit request is only ever issued for an
\* identifier found in the working list.
C6_EditTruncates ==
  [][\A t \in Dispatched :
       t.kind = "edit" =>
         LET ms == chatMessages[Displayed]
             i == FindIndex(ms, t.target)
         IN /\ i # 0
            /\ t.chat = Displayed
            /\ t.list =
                 Append(SubSeq(ms, 1, i - 1),
                        [id |-> ms[i].id, role |-> ms[i].role, content |-> t.arg])
            /\ chatMessages'[Displayed] = t.list
            /\ t.msgs = t.list
            /\ savedMessageIds' =
                 savedMessageIds \ {ms[j].id : j \in i..Len(ms)}]_vars

\* an edit with a new text, just issued, that discarded later messages
C6_Witness ==
  \E t \in streams :
     /\ t.kind = "edit"
     /\ t.state = "submitted"
     /\ t.chat = Displayed
     /\ chatMessages[Displayed] = t.msgs
     /\ t.msgs[Len(t.msgs)].id = t.target
     /\ t.msgs[Len(t.msgs)].content = t.arg
     /\ Len(MessagesOf(conversations, Displayed)) > Len(t.msgs)
     /\ MessagesOf(conversations, Displayed)[Len(t.msgs)].content # t.arg
     /\ AssistantIds(MessagesOf(conversations, Displayed)) \cap savedMessageIds = {}

\* C7: whenever no request is outstanding for the displayed conversation (its
\* status is neither submitted nor streaming and none of its requests is in
\* flight), the working list and the stored list of that conversation have
\* the same roles and contents in the same order.
C7_IdleMatchesStore ==
  ( /\ Displayed # NoConv
    /\ ~IsLoading(status[Displayed])
    /\ \A t \in streams : t.chat # Displayed )
     => Shape(chatMessages[Displayed]) = Shape(MessagesOf(conversations, Displayed))

\* C8: a change of the current conversation to c makes the working list of c
\* equal to c's stored messages and savedMessageIds equal to the identifiers
\* of c's stored assistant messages; a re-render caused by a store update
\* that leaves the current conversation unchanged (a resolved title) resets
\* neither.
C8_LoadOnSwitch ==
  /\ [][currentConversationId' # currentConversationId =>
          LET c == RenderedConvId(conversations', currentConversationId')
              stored == MessagesOf(conversations', c)
          IN /\ chatMessages'[c] = stored
             /\ savedMessageIds' = AssistantIds(stored)]_vars
  /\ [][(\E k \in DOMAIN titleReqs : titleReqs[k].pending /\ ~titleReqs'[k].pending)
          => /\ chatMessages' = chatMessages
             /\ savedMessageIds' = savedMessageIds
             /\ firstUserMessageRef' = firstUserMessageRef]_vars

\* an older conversation with a completed turn, displayed again
C8_Witness ==
  /\ Len(conversations) >= 2
  /\ Displayed \in StoredConvs
  /\ Displayed # conversations[1].id
  /\ Len(chatMessages[Displayed]) >= 2
  /\ chatMessages[Displayed] = MessagesOf(conversations, Displayed)
  /\ savedMessageIds = AssistantIds(MessagesOf(conversations, Displayed))
  /\ savedMessageIds # {}

\* C9: for every conversation at most one title-generation call is issued,
\* and the step that issues it finds the conversation absent from
\* titleGeneratedRef and leaves it present.
C9_TitleAtMostOnce ==
  /\ [](\A c \in ConvIds : Cardinality(TitleReqsFor(c)) <= 1)
  /\ [][Len(titleReqs') > Len(titleReqs) =>
          LET c == titleReqs'[Len(titleReqs')].conv
          IN c \notin titleGeneratedRef /\ c \in titleGeneratedRef']_vars

\* two completions for one conversation, both with the placeholder title in
\* their closure
C9_Witness ==
  \E f1, f2 \in finished :
     /\ f1.id # f2.id
     /\ f1.conv = f2.conv
     /\ f1.title = Placeholder /\ f2.title = Placeholder
     /\ Cardinality(TitleReqsFor(f1.conv)) = 1

\* C10: the completion of the first turn of a new conversation (placeholder
\* title, the sent user message as only message, the conversation displayed,
\* whether or not the user switched away and back meanwhile) leaves the user
\* message followed by exactly one assistant message in the store, a later
\* updatedAt, and exactly one title-generation call.
C10_FirstTurn ==
  [][\A s \in Finishing :
       ( /\ s.kind = "send"
         /\ s.title = Placeholder
         /\ Len(s.msgs) = 1
         /\ s.conv = Displayed
         /\ Len(MessagesOf(conversations, s.conv)) = 1
         /\ \A u \in streams \cup finished : u.conv = s.conv => u.id = s.id )
       => LET before == MessagesOf(conversations, s.conv)
              after == MessagesOf(conversations', s.conv)
          IN /\ after = Append(before, AssistantMessage(s, Reply))
             /\ before[1].role = "user" /\ before[1].content = s.arg
             /\ ConvOf(conversations', s.conv).updatedAt >
                  ConvOf(conversations, s.conv).updatedAt
             /\ Cardinality({k \in DOMAIN titleReqs' :
                               titleReqs'[k].conv = s.conv}) = 1]_vars

\* C11: the input of every title-generation call issued for a conversation is
\* the content of the first user message of that conversation's stored list.
C11_TitleInput ==
  \A k \in DOMAIN titleReqs :
     titleReqs[k].conv \in StoredConvs
        => LET ms == MessagesOf(conversations, titleReqs[k].conv)
           IN /\ Len(ms) >= 1
              /\ ms[1].role = "user"
              /\ titleReqs[k].message = ms[1].content

\* C12: at most one request is outstanding per conversation at any time.
C12_OneOutstanding ==
  \A c \in ChatKeys : Cardinality({s \in streams : s.chat = c}) <= 1

\* C13: a request that fails, before its first token or in mid-stream, leaves
\* the store as it is: no assistant message of that turn is appended, streamed
\* text is never stored, the user message of a failed send is still in the
\* list, and the chat is left in status 'error', in which send and the retry
\* of the error banner are accepted.
C13_ErrorNoCommit ==
  /\ [](\A c \in StoredConvs :
          \A j \in DOMAIN MessagesOf(conversations, c) :
             MessagesOf(conversations, c)[j].content # Partial)
  /\ [][\A s \in Failing :
          /\ conversations' = conversations
          /\ s.id \notin MsgIds(MessagesOf(conversations', s.conv))
          /\ (s.kind = "send" /\ s.conv \in StoredConvs)
                => \E j \in DOMAIN MessagesOf(conversations', s.conv) :
                      MessagesOf(conversations', s.conv)[j] =
                        [id |-> s.id - 2, role |-> "user", content |-> s.arg]
          /\ status'[s.chat] = "error"
          /\ ~IsLoading(status'[s.chat])]_vars

\* a send that failed after its first token, retried from the banner, the
\* retry completed
C13_Witness ==
  \E f \in finished :
     /\ f.kind = "retry"
     /\ f.conv = Displayed
     /\ (f.id - 1) \in failed
     /\ Shape(MessagesOf(conversations, f.conv)) = <<<<"user", "a">>, <<"assistant", Reply>>>>
     /\ MessagesOf(conversations, f.conv)[2].id = f.id
     /\ Shape(chatMessages[Displayed]) = Shape(MessagesOf(conversations, f.conv))

\* the request the route has answered, for the properties of POST
Answered == apiCall.op = "POST"

\* the model identifier begins with one of the supported prefixes
Routable(model) ==
  \/ StartsWith(model, GptPrefix)
  \/ StartsWith(model, ClaudePrefix)
  \/ StartsWith(model, GeminiPrefix)

\* C14: a chat request with a message list and a model identifier that
\* matches no supported prefix is answered with status 400, whatever
\* credentials the headers and the environment hold, and no provider call is
\* made.
C14_UnknownModel400 ==
  ( /\ Answered
    /\ apiCall.thrown.stage # "json"
    /\ apiCall.body.messages.kind = "array"
    /\ apiCall.body.model # Absent
    /\ ~Routable(apiCall.body.model) )
     => /\ apiCall.response.status = 400
        /\ apiCall.response.upstream = <<>>

PrefixOf(provider) ==
  CASE provider = "openai" -> GptPrefix
    [] provider = "anthropic" -> ClaudePrefix
    [] provider = "google" -> GeminiPrefix

\* a credential exists, in the headers or the environment, for the provider
\* the model routes to
CredentialResolves(model, headers) ==
  \E p \in Providers :
     /\ StartsWith(model, PrefixOf(p))
     /\ headers[HeaderOf(p)] # Absent \/ env[p] # Absent

\* C15: the chat endpoint answers with the outcome of the first failing check
\* in the order: messages is a non-empty list (else 400), model is present
\* (else 400), a credential resolves for the routed provider (else 401), the
\* model prefix routes (else 400); a request rejected by a check does not
\* reach the provider.
C15_ValidationOrder ==
  (Answered /\ apiCall.thrown.stage # "json")
     => LET body == apiCall.body
            rejected(code) == /\ apiCall.response.status = code
                              /\ apiCall.response.upstream = <<>>
        IN IF body.messages.kind # "array" \/ body.messages.items = <<>>
           THEN rejected(400)
           ELSE IF body.model = Absent THEN rejected(400)
           ELSE IF ~CredentialResolves(body.model, apiCall.headers)
           THEN rejected(401)
           ELSE IF ~Routable(body.model) THEN rejected(400)
           ELSE TRUE

\* a credential value no request or environment of the inputs holds
OtherKey == <<"z", "k">>

\* the credential stores that differ from f in credential values only
SamePresence(f) ==
  {g \in [DOMAIN f -> {Absent, OtherKey} \cup {f[x] : x \in DOMAIN f}] :
     \A x \in DOMAIN f : (g[x] = Absent) <=> (f[x] = Absent)}

\* the credential values a request and the environment hold
CredentialValues(headers, processEnv) ==
  ({headers[h] : h \in DOMAIN headers} \cup {processEnv[p] : p \in DOMAIN processEnv})
    \ {Absent}

\* C16: a chat request for a routable model with no credential in the
\* headers and none in the environment is answered with 401; no failure body
\* of the endpoint contains a credential value of the headers or the
\* environment, and a failing request gets the same body as every failing
\* request that differs from it in credential values only.
C16_NoCredentialLeak ==
  Answered =>
    LET body == apiCall.body
        response == apiCall.response
    IN /\ ( /\ apiCall.thrown.stage # "json"
            /\ body.messages.kind = "array"
            /\ Routable(body.model)
            /\ CredentialValues(apiCall.headers, env) = {} )
          => response.status = 401 /\ response.json
       /\ response.json
            => /\ response.status \in {400, 401, 429, 500}
               /\ \A c \in CredentialValues(apiCall.headers, env) :
                     ~Includes(response.body.message.arg, c)
               /\ \A h2 \in SamePresence(apiCall.headers), e2 \in SamePresence(env) :
                     LET r2 == POST(body, h2, e2, apiCall.thrown)
                     IN r2.json => r2.body = response.body

\* claude-3-haiku-20240307 with no credential anywhere, answered 401
C16_Witness ==
  /\ Answered
  /\ Len(apiCall.body.model) = 23
  /\ StartsWith(apiCall.body.model, ClaudePrefix)
  /\ apiCall.body.messages.kind = "array"
  /\ Len(apiCall.body.messages.items) = 1
  /\ CredentialValues(apiCall.headers, env) = {}
  /\ apiCall.response.status = 401
  /\ apiCall.response.body.message.text = "API key not configured"

\* the answered request ran into its throw: request.json() threw, or the
\* checks passed and the code that calls the provider threw
CaughtThrow ==
  \/ apiCall.thrown.stage = "json"
  \/ /\ apiCall.thrown.stage = "stream"
     /\ apiCall.body.messages.kind = "array"
     /\ apiCall.body.model # Absent
     /\ CredentialResolves(apiCall.body.model, apiCall.headers)

\* the message of a thrown Error contains the text
Mentions(thrown, text) == thrown.isError /\ Includes(thrown.message, text)

C18_RoutingTotal ==
  /\ apiCall.op = "getProviderForModel"
       => LET result == apiCall.result
          IN /\ \A p \in Providers :
                  StartsWith(apiCall.model, PrefixOf(p))
                     => ~result.threw /\ result.provider = p
             /\ ~Routable(apiCall.model)
                  => result.threw /\ result.provider \notin Providers
  /\ (Answered /\ apiCall.response.upstream # <<>>)
       => \E p \in Providers :
             /\ StartsWith(apiCall.body.model, PrefixOf(p))
             /\ apiCall.response.upstream[1].provider = p

\* the router applied to llama-x with a credential: it throws
C18_Witness ==
  /\ apiCall.op = "getProviderForModel"
  /\ Len(apiCall.model) = 7
  /\ ~Routable(apiCall.model)
  /\ apiCall.apiKey # Absent
  /\ apiCall.result.threw

C20_FormatAttachments ==
  apiCall.op = "formatMessagesWithAttachments"
     => /\ Len(apiCall.result) = Len(apiCall.messages)
        /\ \A i \in DOMAIN apiCall.messages :
              LET message == apiCall.messages[i]
                  out == apiCall.result[i]
                  k == IF message.content # NoContent THEN 1 ELSE 0
              IN /\ message.role \in {"user", "assistant"} => out.role = message.role
                 /\ (message.role = "user" /\ Len(message.attachments) > 0)
                       => /\ out.multipart
                          /\ Len(out.parts) = k + Len(message.attachments)
                          /\ k = 1 => /\ out.parts[1].type = "text"
                                      /\ out.parts[1].text = <<message.content>>
                          /\ \A j \in DOMAIN message.attachments :
                                LET a == message.attachments[j]
                                    part == out.parts[k + j]
                                IN IF a.type = "image"
                                   THEN /\ part.type = "image"
                                        /\ part.image = a.data
                                        /\ part.mimeType = a.mimeType
                                   ELSE /\ part.type = "text"
                                        /\ part.text[2] = a.name
                 /\ message.role = "assistant"
                       => /\ ~out.multipart
                          /\ out.text = message.content
                          /\ out.parts = <<>>

\* a user message with text, an image and a document, formatted
C20_Witness ==
  /\ apiCall.op = "formatMessagesWithAttachments"
  /\ Len(apiCall.messages) = 1
  /\ apiCall.messages[1].role = "user"
  /\ apiCall.messages[1].content # NoContent
  /\ Len(apiCall.messages[1].attachments) = 2
  /\ apiCall.messages[1].attachments[1].type = "image"
  /\ apiCall.messages[1].attachments[2].type = "document"
  /\ Len(apiCall.result[1].parts) = 3
  /\ apiCall.result[1].parts[3].type = "text"

\* the messages of a list that are not system messages, in their order
NonSystem(messages) == SelectSeq(messages, LAMBDA m : m.role # "system")

\* C21: the formatter emits the messages in input order, each with the role
\* of its source message (user or assistant), and a system message is not
\* emitted under any role.
C21_RolesAndOrder ==
  apiCall.op = "formatMessagesWithAttachments"
     => LET kept == NonSystem(apiCall.messages)
        IN /\ Len(apiCall.result) = Len(kept)
           /\ \A i \in DOMAIN kept :
                 i \in DOMAIN apiCall.result
                    => /\ apiCall.result[i].role = kept[i].role
                       /\ apiCall.result[i] = FormatMessage(kept[i])

\* C22: the system prompt handed to the provider with a request of a
\* conversation is the conversation's own prompt when one is set, otherwise
\* the global prompt, and none when neither is set.
C22_SystemPromptChoice ==
  (apiCall.op = "chat" /\ apiCall.response.upstream # <<>>)
     => apiCall.response.upstream[1].system =
          IF apiCall.conversationPrompt \notin {Undefined, ""}
          THEN apiCall.conversationPrompt
          ELSE IF apiCall.globalSystemPrompt \notin {Undefined, ""}
          THEN apiCall.globalSystemPrompt
          ELSE Undefined

\* both prompts are set and the provider gets the conversation's own
C22_Witness ==
  /\ apiCall.op = "chat"
  /\ apiCall.conversationPrompt = "be brief"
  /\ apiCall.globalSystemPrompt = "be kind"
  /\ apiCall.response.status = 200
  /\ apiCall.response.upstream[1].system = "be brief"

\* neither prompt is set and the provider gets none
C22_WitnessNone ==
  /\ apiCall.op = "chat"
  /\ apiCall.conversationPrompt = Undefined
  /\ apiCall.globalSystemPrompt = ""
  /\ apiCall.response.status = 200
  /\ apiCall.response.upstream[1].system = Undefined

\* C23: for any input string the title route answers with status 200 and a
\* title of 1 to 50 characters, and for an input that is empty after trimming
\* the title is the fixed placeholder.
C23_TitleBound ==
  apiCall.op = "generate-title"
     => /\ apiCall.response.status = 200
        /\ Len(apiCall.response.title) \in 1..MAX_TITLE_LENGTH
        /\ Trim(apiCall.message) = <<>>
              => apiCall.response.title = DefaultTitle

\* the requests sent to the gateway in the step
NewGatewayCalls ==
  {gatewayCalls'[i] : i \in (Len(gatewayCalls) + 1)..Len(gatewayCalls')}

\* C24: every step that changes a stored conversation sends a gateway write
\* of that conversation as it is after the step, and every step that removes
\* a conversation sends a gateway delete for it.
C24_MutationPersisted ==
  [][\A id \in ConvIdsIn(conversations) :
        /\ (/\ id \in ConvIdsIn(conversations')
            /\ ConvOf(conversations', id) # ConvOf(conversations, id))
              => [method |-> "POST",
                  conversation |-> ConvOf(conversations', id)]
                   \in NewGatewayCalls
        /\ id \notin ConvIdsIn(conversations')
              => [method |-> "DELETE", id |-> id] \in NewGatewayCalls]_vars

\* the conversation documents of the directory that can be read
Readable(dir) ==
  {dir[i].content.data :
     i \in {j \in DOMAIN dir : EndsWith(dir[j].name, JsonExt)
                                 /\ ~ReadThrows(dir[j])}}

\* most recently updated first
NewestFirst(convs) ==
  \A i, j \in DOMAIN convs : i < j => convs[i].updatedAt >= convs[j].updatedAt

\* C25: the listing answers 200 with every readable conversation of the
\* directory, most recently updated first, whether or not the directory holds
\* a document that cannot be read.
C25_ListingSkipsCorrupt ==
  apiCall.op = "GET conversations"
     => /\ apiCall.response.status = 200
        /\ Range(apiCall.response.body) = Readable(files)
        /\ Len(apiCall.response.body) = Cardinality(Readable(files))
        /\ NewestFirst(apiCall.response.body)

\* the positions of the conversations other than id, in order
Others(convs, id) ==
  SelectSeq([i \in DOMAIN convs |-> i], LAMBDA i : convs[i].id # id)

\* C26: deleteConversation(id) removes the conversation id and no other and
\* keeps the order of the rest; the selection moves to the first remaining
\* conversation, or to null, exactly when the selected conversation is the
\* one deleted.
C26_DeleteConversation ==
  [][apiCall'.op = "deleteConversation"
       => LET id == apiCall'.id
              rest == Others(conversations, id)
          IN /\ Len(conversations') = Len(rest)
             /\ \A k \in DOMAIN rest :
                   k \in DOMAIN conversations'
                      => conversations'[k] = conversations[rest[k]]
             /\ currentConversationId = id
                   => currentConversationId' =
                        IF conversations' # <<>> THEN conversations'[1].id
                        ELSE NoConv
             /\ currentConversationId # id
                   => currentConversationId' = currentConversationId]_vars

\* the selected conversation was deleted and the first remaining one, which
\* was not the first before, is selected
C26_Witness ==
  /\ apiCall.op = "deleteConversation"
  /\ apiCall.id \notin ConvIdsIn(conversations)
  /\ Len(conversations) = 2
  /\ currentConversationId = conversations[1].id
  /\ currentConversationId < apiCall.id

\* store operations that change one conversation and keep its messages
KeepsMessages ==
  {"updateConversation", "pinConversation", "archiveConversation"}

\* the conversations other than id are what they were
OthersUnchanged(id) ==
  /\ Len(conversations') = Len(conversations)
  /\ \A i \in DOMAIN conversations :
        (i \in DOMAIN conversations' /\ conversations[i].id # id)
           => conversations'[i] = conversations[i]

\* the message lists after the step of the conversations with this id
MessagesAfter(i) ==
  IF i \in DOMAIN conversations' THEN conversations'[i].messages ELSE <<>>

\* C27: addMessage appends the message to the end of the target list and
\* changes no other conversation; updateMessage changes only the content of
\* the messages with the given id; updateConversation, pinConversation and
\* archiveConversation leave every message list as it was.
C27_MessagesKept ==
  [][/\ apiCall'.op = "addMessage"
          => /\ OthersUnchanged(apiCall'.id)
             /\ \A i \in DOMAIN conversations :
                   conversations[i].id = apiCall'.id
                      => MessagesAfter(i) =
                           Append(conversations[i].messages, apiCall'.message)
     /\ apiCall'.op = "updateMessage"
          => /\ OthersUnchanged(apiCall'.id)
             /\ \A i \in DOMAIN conversations :
                   conversations[i].id = apiCall'.id
                      => /\ Len(MessagesAfter(i)) = Len(conversations[i].messages)
                         /\ \A k \in DOMAIN conversations[i].messages :
                               k \in DOMAIN MessagesAfter(i)
                                  => MessagesAfter(i)[k] =
                                       IF conversations[i].messages[k].id
                                            = apiCall'.messageId
                                       THEN [conversations[i].messages[k]
                                               EXCEPT !.content = apiCall'.content]
                                       ELSE conversations[i].messages[k]
     /\ apiCall'.op \in KeepsMessages
          => /\ OthersUnchanged(apiCall'.id)
             /\ \A i \in DOMAIN conversations :
                   MessagesAfter(i) = conversations[i].messages]_vars

\* a message was added to a conversation that had two, next to another
\* conversation with messages
C27_Witness ==
  /\ apiCall.op = "addMessage"
  /\ apiCall.id \in ConvIdsIn(conversations)
  /\ Len(MessagesOf(conversations, apiCall.id)) = 3
  /\ MessagesOf(conversations, apiCall.id)[3] = apiCall.message
  /\ \E other \in ConvIdsIn(conversations) :
        other # apiCall.id /\ Len(MessagesOf(conversations, other)) = 2

\* the second message of a conversation was rewritten
C27_WitnessUpdate ==
  /\ apiCall.op = "updateMessage"
  /\ apiCall.messageId = 2
  /\ apiCall.id \in ConvIdsIn(conversations)
  /\ Shape(MessagesOf(conversations, apiCall.id))
       = <<<<"user", "a">>, <<"assistant", "c">>>>

\* store operations that mutate one conversation
Mutations ==
  KeepsMessages \cup {"addMessage", "updateMessage"}

\* C28: updateConversation, pinConversation, archiveConversation, addMessage
\* and updateMessage set the updatedAt of the target conversation to the time
\* of the call, whatever updatedAt the update carries, and leave the updatedAt
\* of every other conversation unchanged; no updatedAt decreases.
C28_UpdatedAtBumped ==
  [][apiCall'.op \in Mutations
       => /\ Len(conversations') = Len(conversations)
          /\ \A i \in DOMAIN conversations :
                i \in DOMAIN conversations'
                   => /\ conversations'[i].updatedAt =
                           IF conversations[i].id = apiCall'.id THEN clock'
                           ELSE conversations[i].updatedAt
                      /\ conversations'[i].updatedAt
                           >= conversations[i].updatedAt]_vars

\* an update that carries an updatedAt of its own was applied to a
\* conversation, next to another conversation
C28_Witness ==
  /\ apiCall.op = "updateConversation"
  /\ "updatedAt" \in DOMAIN apiCall.updates
  /\ apiCall.id \in ConvIdsIn(conversations)
  /\ ConvOf(conversations, apiCall.id).title = apiCall.updates.title
  /\ ConvOf(conversations, apiCall.id).updatedAt = clock
  /\ apiCall.updates.updatedAt # clock
  /\ Len(conversations) > 1

\* C29: the selected conversation id is null or the id of a stored
\* conversation.
C29_CurrentIsStored ==
  currentConversationId = NoConv
     \/ currentConversationId \in ConvIdsIn(conversations)

\* the conversations other than id are the same before and after the step,
\* and no conversation appears
OnlyTouches(id) ==
  /\ ConvIdsIn(conversations') = ConvIdsIn(conversations)
  /\ \A other \in ConvIdsIn(conversations) :
        other # id => ConvOf(conversations', other) = ConvOf(conversations, other)

\* C30: when the result of a title call arrives, no conversation appears, no
\* other conversation changes, and the title of its conversation is written
\* only if it is still the placeholder; when a stream of a deleted
\* conversation completes, the stored conversations stay as they are.
C30_LateResults ==
  [][/\ \A k \in DOMAIN titleReqs :
          (/\ titleReqs[k].pending
           /\ k \in DOMAIN titleReqs'
           /\ ~titleReqs'[k].pending)
             => /\ OnlyTouches(titleReqs[k].conv)
                /\ TitleOf(conversations, titleReqs[k].conv) # Placeholder
                      => TitleOf(conversations', titleReqs[k].conv)
                           = TitleOf(conversations, titleReqs[k].conv)
     /\ \A s \in streams :
          (/\ s \notin streams'
           /\ Completed(s, 1) \in finished'
           /\ s.conv \notin ConvIdsIn(conversations))
             => conversations' = conversations]_vars

====
